---------------------------- MODULE Spec2Model ----------------------------
(***************************************************************************)
(* Firmware artifact extraction and classification (Tuya/Camera1 scripts). *)
(*                                                                         *)
(* Bytes are the integers 0..255; a byte string and a text string are both *)
(* sequences of character codes (the scanners only ever emit chr(b) for    *)
(* 32 <= b < 127, so text is ASCII).                                       *)
(***************************************************************************)
EXTENDS Integers, Sequences, FiniteSets, TLC

VARIABLES
    \* byte-run scanner
    buf,            \* the buffer handed to the extractors
    min_len,        \* the min_len argument
    ascii_strings,  \* the last result of extract_ascii_strings
    utf16_strings,  \* the last result of extract_utf16le_strings
    \* one file under the blob detector and the deep scan
    file,           \* the file: [readable, body, pad]
    verdict,        \* what scan_blob returned for it, or NotRun
    report,         \* what analyze_binary returned for it, or NotRun
    \* classifiers
    in_strings,     \* the string sequence handed to the classifiers
    deep_hits,      \* the hit lists of the find_* functions, or NotRun
    info,           \* what analyze_strings returned, or NotRun
    \* one run of one of the four scripts
    mode,           \* the script: "deep", "blob", "cred" or "recon"
    root_exists,    \* is there a file (deep) or a directory at the path
    args,           \* [out_json, qiling_profile]: is the option given
    tree,           \* the files under the path, in the order of os.walk
    idx,            \* how many of them the loop has visited
    results,        \* results (blob, recon) or keys_to_files (cred)
    tycam_candidate,\* the static recon's tycam_candidate: [path] or None
    pc,             \* "start", "walk", "done", "aborted" or "crashed"
    stdout,         \* what has been printed, line group by line group
    json_out,       \* what json.dump has written (a record), or None
    exit_msg        \* SystemExit: [message], or None

scannerVars == <<buf, min_len, ascii_strings, utf16_strings>>
blobVars == <<file, verdict, report>>
classVars == <<in_strings, deep_hits, info>>
runVars ==
    <<mode, root_exists, args, tree, idx, results, tycam_candidate, pc,
      stdout, json_out, exit_msg>>
vars == <<scannerVars, blobVars, classVars, runVars>>

\* the value of a result variable before its operation has run
NotRun == [NotRun |-> TRUE]

\* Python's None (a record, so that it compares unequal to every dict)
None == [None |-> TRUE]

\* the empty dict {}
EmptyDict == [k \in {} |-> 0]

(***************************************************************************)
(* Generic helpers                                                         *)
(***************************************************************************)
Range(s) == {s[i] : i \in 1..Len(s)}

Min(S) == CHOOSE x \in S : \A y \in S : x <= y

Max(S) == CHOOSE x \in S : \A y \in S : x >= y

\* TRUE, once v has been computed: used where a value must be complete
\* before the evaluation goes on
Evaluated(v) == v = v

\* the sequence q with every element computed
Tuple(q) == q \o <<>>

SeqsUpTo(A, n) == UNION {[1..k -> A] : k \in 0..n}

(***************************************************************************)
(* Text: a character is its code.  Chars lists the printable ASCII         *)
(* characters in code order, so Ord("A") = 65; Str turns a tuple of        *)
(* one-character strings into the sequence of their codes (code 96 is      *)
(* spelled out: the grave accent cannot stand in a string literal).        *)
(***************************************************************************)
Chars ==
    <<" ", "!", "\"", "#", "$", "%", "&", "'", "(", ")", "*", "+", ",", "-",
      ".", "/", "0", "1", "2", "3", "4", "5", "6", "7", "8", "9", ":", ";",
      "<", "=", ">", "?", "@", "A", "B", "C", "D", "E", "F", "G", "H", "I",
      "J", "K", "L", "M", "N", "O", "P", "Q", "R", "S", "T", "U", "V", "W",
      "X", "Y", "Z", "[", "\\", "]", "^", "_", "backtick", "a", "b", "c", "d", "e",
      "f", "g", "h", "i", "j", "k", "l", "m", "n", "o", "p", "q", "r", "s",
      "t", "u", "v", "w", "x", "y", "z", "{", "|", "}", "~">>

Ord(c) == 31 + (CHOOSE i \in 1..Len(Chars) : Chars[i] = c)

Str(t) == Tuple([i \in 1..Len(t) |-> Ord(t[i])])

Byte == 0..255
NUL == 0
LF == 10
CR == 13

Digits == 48..57
Upper == 65..90
Lower == 97..122
Alnum == Digits \cup Upper \cup Lower
\* [A-Za-z0-9_], which is also \w on ASCII text
WordChars == Alnum \cup {95}
HexChars == Digits \cup (65..70) \cup (97..102)

\* data[a..b] (1-based, inclusive); empty when a > b
Slice(s, a, b) == Tuple([i \in 1..(b - a + 1) |-> s[a + i - 1]])

\* "needle in haystack" on bytes or text
Contains(s, sub) ==
    \E p \in 1..(Len(s) - Len(sub) + 1) :
        \A j \in 1..Len(sub) : s[p + j - 1] = sub[j]

(***************************************************************************)
(* Python re: a backtracking matcher for the pattern constructs the        *)
(* scripts use.  A pattern is a sequence of nodes:                         *)
(*   Set(S)           one character out of S (a literal or a class)        *)
(*   Item(ws)         one character out of each set of ws in turn (a       *)
(*                    literal string)                                      *)
(*   Wb               \b                                                   *)
(*   Alt(xs)          x1|x2|..., each xi a pattern, tried in order         *)
(*   RepF(ws,lo,hi)   greedy {lo,hi} of a fixed-width item (a sequence of  *)
(*                    sets); hi = Unbounded for {lo,}                      *)
(*   Rep(x,lo,hi)     greedy {lo,hi} of an arbitrary pattern x             *)
(*   Grp(n,x)         capturing group number n                             *)
(* MatchAt(k, s, i, g) matches the pattern k against s from position i     *)
(* (1-based) and returns the first match in backtracking order: greedy     *)
(* repetitions try the longest count first, alternations the leftmost      *)
(* branch first.  g maps each group number to its <<start, end>> span      *)
(* (end exclusive; <<0, 0>> while unset).                                  *)
(***************************************************************************)
Unbounded == -1

Set(S) == [t |-> "set", s |-> S]
Item(ws) == [t |-> "item", ws |-> ws]
Wb == [t |-> "wb"]
Alt(xs) == [t |-> "alt", xs |-> xs]
RepF(ws, lo, hi) == [t |-> "repf", ws |-> ws, lo |-> lo, hi |-> hi]
Rep(x, lo, hi) == [t |-> "rep", x |-> x, lo |-> lo, hi |-> hi]
Grp(n, x) == [t |-> "grp", n |-> n, x |-> x]
GrpEnd(n, st) == [t |-> "gend", n |-> n, st |-> st]

\* a literal string, and the same under re.IGNORECASE
Lit(txt) == <<Item(Tuple([i \in 1..Len(txt) |-> {txt[i]}]))>>
FoldCase(c) ==
    IF c \in Upper THEN {c, c + 32} ELSE IF c \in Lower THEN {c, c - 32} ELSE {c}
LitI(txt) == <<Item(Tuple([i \in 1..Len(txt) |-> FoldCase(txt[i])]))>>

NoMatch == [ok |-> FALSE]
NoGroups == <<<<0, 0>>, <<0, 0>>>>

IsWordAt(s, i) == i >= 1 /\ i <= Len(s) /\ s[i] \in WordChars
AtWordBoundary(s, i) == IsWordAt(s, i - 1) # IsWordAt(s, i)

\* does the fixed-width item ws match s at position p
ItemAt(ws, s, p) ==
    /\ p + Len(ws) - 1 <= Len(s)
    /\ \A j \in 1..Len(ws) : s[p + j - 1] \in ws[j]

\* how many consecutive copies of the item ws stand at position i, up to hi
RunCount(ws, s, i, hi) ==
    LET fit == (Len(s) - i + 1) \div Len(ws)
        cap == IF hi = Unbounded \/ fit < hi THEN fit ELSE hi
    IN  Min({c \in 0..(cap - 1) : ~ItemAt(ws, s, i + c * Len(ws))} \cup {cap})

\* A necessary condition for the pattern k to match s at position i: its
\* first node can start there.  MatchAt(k, s, i, g) is NoMatch wherever
\* Begins(k, s, i) is false; the scans use it to pass over such positions
\* and alternatives.
RECURSIVE Begins(_, _, _)
Begins(k, s, i) ==
    IF k = <<>> THEN TRUE
    ELSE
    LET h == Head(k)
    IN  CASE h.t = "set" -> i <= Len(s) /\ s[i] \in h.s
          [] h.t = "item" -> ItemAt(h.ws, s, i)
          [] h.t = "wb" -> AtWordBoundary(s, i) /\ Begins(Tail(k), s, i)
          [] h.t = "alt" -> \E j \in 1..Len(h.xs) : Begins(h.xs[j] \o Tail(k), s, i)
          [] h.t = "repf" -> h.lo >= 1 => ItemAt(h.ws, s, i)
          [] h.t = "rep" -> h.lo >= 1 => Begins(h.x, s, i)
          [] h.t = "grp" -> Begins(h.x \o Tail(k), s, i)
          [] h.t = "gend" -> TRUE

RECURSIVE MatchAt(_, _, _, _)
MatchAt(k, s, i, g) ==
    IF k = <<>> THEN [ok |-> TRUE, e |-> i, g |-> g]
    ELSE
    LET h == Head(k)
        rest == Tail(k)
    IN  CASE h.t = "set" ->
                IF i <= Len(s) /\ s[i] \in h.s
                THEN MatchAt(rest, s, i + 1, g) ELSE NoMatch
          [] h.t = "item" ->
                IF ItemAt(h.ws, s, i)
                THEN MatchAt(rest, s, i + Len(h.ws), g) ELSE NoMatch
          [] h.t = "wb" ->
                IF AtWordBoundary(s, i) THEN MatchAt(rest, s, i, g) ELSE NoMatch
          [] h.t = "alt" ->
                \* the alternatives in their order, the first that lets the
                \* rest match
                LET live == SelectSeq(h.xs, LAMBDA x : Begins(x \o rest, s, i))
                    first == MatchAt(Head(live) \o rest, s, i, g)
                IN  IF live = <<>> THEN NoMatch
                    ELSE IF first.ok THEN first
                    ELSE IF Len(live) = 1 THEN NoMatch
                    ELSE MatchAt(<<Alt(Tail(live))>> \o rest, s, i, g)
          [] h.t = "repf" ->
                \* greedy: the largest number of copies, of those that
                \* stand there, with which the rest matches
                LET n == RunCount(h.ws, s, i, h.hi)
                    after(c) == MatchAt(rest, s, i + c * Len(h.ws), g)
                    all == IF n < h.lo THEN NoMatch ELSE after(n)
                    good == {c \in h.lo..(n - 1) : after(c).ok}
                IN  IF all.ok THEN all
                    ELSE IF good = {} THEN NoMatch ELSE after(Max(good))
          [] h.t = "rep" ->
                LET lo1 == IF h.lo > 0 THEN h.lo - 1 ELSE 0
                    hi1 == IF h.hi = Unbounded THEN Unbounded ELSE h.hi - 1
                    more == IF h.hi = 0 THEN NoMatch
                            ELSE MatchAt(h.x \o <<Rep(h.x, lo1, hi1)>> \o rest,
                                         s, i, g)
                IN  IF more.ok THEN more
                    ELSE IF h.lo = 0 THEN MatchAt(rest, s, i, g) ELSE NoMatch
          [] h.t = "grp" ->
                MatchAt(h.x \o <<GrpEnd(h.n, i)>> \o rest, s, i, g)
          [] h.t = "gend" ->
                MatchAt(rest, s, i, [g EXCEPT ![h.n] = <<h.st, i>>])

\* the match attempt at every start position of s
MatchTable(re, s) ==
    Tuple([p \in 1..(Len(s) + 1) |->
              IF Begins(re, s, p) THEN MatchAt(re, s, p, NoGroups) ELSE NoMatch])

\* pattern.search(s) is not None
Search(re, s) ==
    \E p \in 1..(Len(s) + 1) : Begins(re, s, p) /\ MatchAt(re, s, p, NoGroups).ok

\* The scan of finditer from position pos on: the leftmost match, then the
\* scan resumes at its end (no pattern of the scripts matches the empty
\* string, so the end is always past the start).
RECURSIVE FindFrom(_, _, _)
FindFrom(tab, n, pos) ==
    LET starts == {p \in pos..(n + 1) : tab[p].ok}
    IN  IF starts = {} THEN <<>>
        ELSE LET p == Min(starts)
             IN  <<[st |-> p, e |-> tab[p].e, g |-> tab[p].g]>>
                     \o FindFrom(tab, n, tab[p].e)

FindIter(re, s) == FindFrom(MatchTable(re, s), Len(s), 1)

\* findall of a pattern without groups: the matched substrings
FindAll(re, s) ==
    LET ms == FindIter(re, s)
    IN  Tuple([j \in 1..Len(ms) |-> Slice(s, ms[j].st, ms[j].e - 1)])

\* findall of a pattern with one group: the group's text
FindAll1(re, s) ==
    LET ms == FindIter(re, s)
    IN  Tuple([j \in 1..Len(ms) |-> Slice(s, ms[j].g[1][1], ms[j].g[1][2] - 1)])

\* findall of a pattern with two groups: the pairs of the groups' texts
FindAll2(re, s) ==
    LET ms == FindIter(re, s)
    IN  Tuple([j \in 1..Len(ms) |->
                  <<Slice(s, ms[j].g[1][1], ms[j].g[1][2] - 1),
                    Slice(s, ms[j].g[2][1], ms[j].g[2][2] - 1)>>])

(***************************************************************************)
(* Byte-run scanner: tuya_binary_deep_scan.py extract_ascii_strings and    *)
(* extract_utf16le_strings (tuya_rts3903_static_recon.py runs the same     *)
(* single-byte loop on the bytes it read from a path).                     *)
(***************************************************************************)

\* the printable range with DEL let in
IsPrintable_with_del(b) == 32 <= b /\ b <= 127

\* the test "32 <= b < 127" of both loops
IsPrintable(b) == 32 <= b /\ b < 127

\* the flush with "len(cur) > min_len"
Flush_strict(cur, out, minlen) == IF Len(cur) > minlen THEN Append(out, cur) ELSE out

\* "if len(cur) >= min_len: out.append(''.join(cur))": out after the flush
Flush(cur, out, minlen) == IF Len(cur) >= minlen THEN Append(out, cur) ELSE out

\* One iteration of "for b in data": the pair <<cur, out>> after byte b.
AsciiStep(st, b, minlen) ==
    IF IsPrintable(b)
    THEN <<Append(st[1], b), st[2]>>
    ELSE <<<<>>, Flush(st[1], st[2], minlen)>>

\* The loop over data[lo..hi], started in state st, left to right.  The range
\* is split in halves, the first half run to its end (Evaluated) before the
\* second starts from the state it left: this only keeps the evaluation depth
\* logarithmic, the bytes are still consumed strictly in buffer order.
RECURSIVE AsciiLoop(_, _, _, _, _)
AsciiLoop(data, lo, hi, st, minlen) ==
    IF lo > hi THEN st
    ELSE IF lo = hi THEN AsciiStep(st, data[lo], minlen)
    ELSE LET mid == (lo + hi) \div 2
             left == AsciiLoop(data, lo, mid, st, minlen)
         IN  IF Evaluated(left)
             THEN AsciiLoop(data, mid + 1, hi, left, minlen) ELSE left

extract_ascii_strings(data, minlen) ==
    LET st == AsciiLoop(data, 1, Len(data), <<<<>>, <<>>>>, minlen)
    IN  Flush(st[1], st[2], minlen)

\* One iteration of "for i in range(0, len(data) - 1, 2)": i is the 0-based
\* offset of the pair, lo = data[i], hi = data[i+1].
Utf16Step(st, lo, hi, minlen) ==
    IF hi = 0 /\ IsPrintable(lo)
    THEN <<Append(st[1], lo), st[2]>>
    ELSE <<<<>>, Flush(st[1], st[2], minlen)>>

\* The loop over the pairs numbered plo..phi (pair k sits at 0-based offsets
\* 2k and 2k+1, i.e. data[2k+1] and data[2k+2] in 1-based indexing).
RECURSIVE Utf16Loop(_, _, _, _, _)
Utf16Loop(data, plo, phi, st, minlen) ==
    IF plo > phi THEN st
    ELSE IF plo = phi
         THEN Utf16Step(st, data[2 * plo + 1], data[2 * plo + 2], minlen)
    ELSE LET mid == (plo + phi) \div 2
             left == Utf16Loop(data, plo, mid, st, minlen)
         IN  IF Evaluated(left)
             THEN Utf16Loop(data, mid + 1, phi, left, minlen) ELSE left

\* range(0, len(data) - 1, 2) has Len(data) \div 2 elements: a trailing
\* unpaired byte is never read.
extract_utf16le_strings(data, minlen) ==
    LET npairs == Len(data) \div 2
        st == Utf16Loop(data, 0, npairs - 1, <<<<>>, <<>>>>, minlen)
    IN  Flush(st[1], st[2], minlen)

(***************************************************************************)
(* Deep scan of one binary: tuya_binary_deep_scan.py                       *)
(***************************************************************************)

\* the loop of uniq without its test "if s not in seen"
UniqStep_keep_all(st, s) == <<st[1] \cup {s}, Append(st[2], s)>>

\* The loop of uniq: st = <<seen, res>> after one more element s.
UniqStep(st, s) ==
    IF s \notin st[1] THEN <<st[1] \cup {s}, Append(st[2], s)>> ELSE st

RECURSIVE UniqLoop(_, _, _)
UniqLoop(seq, i, st) ==
    IF i > Len(seq) THEN st ELSE UniqLoop(seq, i + 1, UniqStep(st, seq[i]))

uniq(seq) == UniqLoop(seq, 1, <<{}, <<>>>>)[2]

RECURSIVE ConcatFrom(_, _)
ConcatFrom(ss, k) == IF k > Len(ss) THEN <<>> ELSE ss[k] \o ConcatFrom(ss, k + 1)

\* a1 + a2 + ... of a sequence of lists (what a loop of extend builds)
Concat(ss) == ConcatFrom(Tuple(ss), 1)

\* n copies of x
Copies(x, n) == Tuple([i \in 1..n |-> x])

\* the characters of a literal, as the sets an item of RepF is made of
Chs(txt) == Tuple([i \in 1..Len(txt) |-> {txt[i]}])

\* r'(/[a-zA-Z0-9_\-]+){2,}'
MQTT_TOPIC_RE ==
    << Rep(<<Grp(1, <<Set({Ord("/")}),
                      RepF(<<Alnum \cup {Ord("_"), Ord("-")}>>, 1, Unbounded)>>)>>,
           2, Unbounded) >>

\* r'"(?:devId|gwId|dps|uid|localKey|schemaId|productKey|cid)"'
TUYA_DP_RE ==
    << Set({Ord("\"")}),
       Alt(<<Lit(Str(<<"d","e","v","I","d">>)),
             Lit(Str(<<"g","w","I","d">>)),
             Lit(Str(<<"d","p","s">>)),
             Lit(Str(<<"u","i","d">>)),
             Lit(Str(<<"l","o","c","a","l","K","e","y">>)),
             Lit(Str(<<"s","c","h","e","m","a","I","d">>)),
             Lit(Str(<<"p","r","o","d","u","c","t","K","e","y">>)),
             Lit(Str(<<"c","i","d">>))>>),
       Set({Ord("\"")}) >>

\* the pattern of AES_KEY_HEX_RE with the class [0-9a-f], capitals forgotten
AES_KEY_HEX_RE_lower ==
    LET lower == Digits \cup {Ord(c) : c \in {"a","b","c","d","e","f"}}
    IN  << Alt(<< <<Wb, RepF(<<lower>>, 32, 32), Wb>>,
                  <<Wb, RepF(<<lower>>, 48, 48), Wb>>,
                  <<Wb, RepF(<<lower>>, 64, 64), Wb>> >>) >>

\* r'\b[0-9a-fA-F]{32}\b|\b[0-9a-fA-F]{48}\b|\b[0-9a-fA-F]{64}\b'
AES_KEY_HEX_RE ==
    << Alt(<< <<Wb, RepF(<<HexChars>>, 32, 32), Wb>>,
              <<Wb, RepF(<<HexChars>>, 48, 48), Wb>>,
              <<Wb, RepF(<<HexChars>>, 64, 64), Wb>> >>) >>

Base64Chars == Alnum \cup {Ord("+"), Ord("/")}

\* r'\b[A-Za-z0-9+/]{22,}={0,2}\b'
BASE64_KEY_RE ==
    << Wb, RepF(<<Base64Chars>>, 22, Unbounded), RepF(<<{Ord("=")}>>, 0, 2), Wb >>

\* r'-----BEGIN (RSA |EC |)PUBLIC KEY-----'
RSA_PEM_RE ==
    Lit(Str(<<"-","-","-","-","-","B","E","G","I","N"," ">>))
    \o << Grp(1, <<Alt(<<Lit(Str(<<"R","S","A"," ">>)),
                          Lit(Str(<<"E","C"," ">>)),
                          <<>>>>)>>) >>
    \o Lit(Str(<<"P","U","B","L","I","C"," ","K","E","Y","-","-","-","-","-">>))

\* r'(signature|authKey|localKey|HMAC|SHA256|ECDSA|curve25519|X-Amz-Signature)'
\* with re.IGNORECASE
TUYA_SIG_HINT_RE ==
    << Grp(1, <<Alt(<<LitI(Str(<<"s","i","g","n","a","t","u","r","e">>)),
                        LitI(Str(<<"a","u","t","h","K","e","y">>)),
                        LitI(Str(<<"l","o","c","a","l","K","e","y">>)),
                        LitI(Str(<<"H","M","A","C">>)),
                        LitI(Str(<<"S","H","A","2","5","6">>)),
                        LitI(Str(<<"E","C","D","S","A">>)),
                        LitI(Str(<<"c","u","r","v","e","2","5","5","1","9">>)),
                        LitI(Str(<<"X","-","A","m","z","-","S","i","g","n","a","t","u","r","e">>))>>)>>) >>

\* the first class of PROTOBUF_FIELD_RE: \x08, \x10, ..., \xf8
ProtoTagBytes == {8 * k : k \in 1..31}

\* rb'[\x08\x10...\xf8][\x01-\x7f]'
PROTOBUF_FIELD_RE == << Set(ProtoTagBytes), Set(1..127) >>

MaxJsonLen == 512

find_json_like(strings) ==
    uniq(SelectSeq(strings, LAMBDA s :
            /\ Ord("{") \in Range(s) /\ Ord("}") \in Range(s)
            /\ Ord(":") \in Range(s)
            /\ Len(s) <= MaxJsonLen))

\* "m = findall(s); if m: for _ in m: hits.append(s)": s once per match
find_mqtt_topics(strings) ==
    uniq(Concat([k \in 1..Len(strings) |->
            Copies(strings[k], Len(FindAll1(MQTT_TOPIC_RE, strings[k])))]))

find_tuya_dp(strings) ==
    uniq(SelectSeq(strings, LAMBDA s : Search(TUYA_DP_RE, s)))

\* find_keys returns the pair (hex, base64); its two components
find_keys_hex(strings) ==
    uniq(Concat([k \in 1..Len(strings) |-> FindAll(AES_KEY_HEX_RE, strings[k])]))

find_keys_b64(strings) ==
    uniq(Concat([k \in 1..Len(strings) |-> FindAll(BASE64_KEY_RE, strings[k])]))

find_tuya_sig(strings) ==
    uniq(SelectSeq(strings, LAMBDA s : Search(TUYA_SIG_HINT_RE, s)))

protobuf_entropy_score(data) == Len(FindAll(PROTOBUF_FIELD_RE, data))

\* "PEM public key header found (see binary in hex/strings for full block)"
PemNote == "PEM public key header found"

\* the five find_* calls of analyze_binary on all_strings, by report field
DeepCategories(strings) ==
    [ json_like |-> find_json_like(strings),
      mqtt_topics_like |-> find_mqtt_topics(strings),
      tuya_dp_fragments |-> find_tuya_dp(strings),
      aes_key_hex_candidates |-> find_keys_hex(strings),
      base64_key_candidates |-> find_keys_b64(strings),
      tuya_signature_related |-> find_tuya_sig(strings) ]

\* analyze_binary on the bytes read_file returned.  data.decode("latin1")
\* maps every byte to the character of the same code.  The report's "path"
\* field, a copy of the argument, is left out: the file is given by its bytes.
analyze_binary(data) ==
    LET ascii == extract_ascii_strings(data, 4)
        utf16 == extract_utf16le_strings(data, 4)
        all_strings == ascii \o utf16
    IN  [ stats |-> [ ascii_strings |-> Len(ascii),
                      utf16_strings |-> Len(utf16),
                      protobuf_field_tag_score |-> protobuf_entropy_score(data) ],
          rsa_pem_header |-> IF Search(RSA_PEM_RE, data) THEN <<PemNote>> ELSE <<>> ]
        @@ DeepCategories(all_strings)

(***************************************************************************)
(* Static recon of a root filesystem: tuya_rts3903_static_recon.py         *)
(***************************************************************************)

\* uniq_preserve is the same loop as uniq
uniq_preserve(seq) == UniqLoop(seq, 1, <<{}, <<>>>>)[2]

UrlChars ==
    Alnum \cup {Ord("."), Ord("-"), Ord("_"), Ord("/"), Ord(":"), Ord("%"),
                Ord("?"), Ord("="), Ord("&")}

\* r"https?://[a-zA-Z0-9\.\-_/:%\?\=&]+"
URL_RE ==
    Lit(Str(<<"h","t","t","p">>)) \o << RepF(<<{Ord("s")}>>, 0, 1) >> \o Lit(Str(<<":","/","/">>))
    \o << RepF(<<UrlChars>>, 1, Unbounded) >>

\* r"\b[a-zA-Z0-9\.\-]+\.(?:tuya(?:cloud)?\.com|tuyaeu\.com|tuyaus\.com
\*    |amazonaws\.com|aliyun\.com)\b"
HOST_RE ==
    << Wb,
       RepF(<<Alnum \cup {Ord("."), Ord("-")}>>, 1, Unbounded),
       Set({Ord(".")}),
       Alt(<< Lit(Str(<<"t","u","y","a">>)) \o << RepF(Chs(Str(<<"c","l","o","u","d">>)), 0, 1) >> \o Lit(Str(<<".","c","o","m">>)),
              Lit(Str(<<"t","u","y","a","e","u",".","c","o","m">>)),
              Lit(Str(<<"t","u","y","a","u","s",".","c","o","m">>)),
              Lit(Str(<<"a","m","a","z","o","n","a","w","s",".","c","o","m">>)),
              Lit(Str(<<"a","l","i","y","u","n",".","c","o","m">>)) >>),
       Wb >>

\* r"\b(mqtt|mqtts|amqps?)\b" with re.IGNORECASE
MQTT_RE ==
    << Wb,
       Grp(1, <<Alt(<< LitI(Str(<<"m","q","t","t">>)),
                       LitI(Str(<<"m","q","t","t","s">>)),
                       LitI(Str(<<"a","m","q","p">>)) \o << RepF(<<FoldCase(Ord("s"))>>, 0, 1) >> >>)>>),
       Wb >>

\* r"([a-zA-Z0-9/_\-]+/(?:status|state|command|event|online|offline|dp
\*    |control|upgrade))"
TOPIC_RE ==
    << Grp(1, << RepF(<<Alnum \cup {Ord("/"), Ord("_"), Ord("-")}>>, 1, Unbounded),
                 Set({Ord("/")}),
                 Alt(<<Lit(Str(<<"s","t","a","t","u","s">>)),
                           Lit(Str(<<"s","t","a","t","e">>)),
                           Lit(Str(<<"c","o","m","m","a","n","d">>)),
                           Lit(Str(<<"e","v","e","n","t">>)),
                           Lit(Str(<<"o","n","l","i","n","e">>)),
                           Lit(Str(<<"o","f","f","l","i","n","e">>)),
                           Lit(Str(<<"d","p">>)),
                           Lit(Str(<<"c","o","n","t","r","o","l">>)),
                           Lit(Str(<<"u","p","g","r","a","d","e">>))>>) >>) >>

DEVICE_ID_KEYS ==
    << Str(<<"d","e","v","I","d">>),
       Str(<<"d","e","v","i","c","e","I","d">>),
       Str(<<"u","u","i","d">>),
       Str(<<"u","i","d">>),
       Str(<<"a","u","t","h","K","e","y">>),
       Str(<<"l","o","c","a","l","K","e","y">>),
       Str(<<"p","r","o","d","u","c","t","K","e","y">>),
       Str(<<"p","k","_","i","d">>),
       Str(<<"s","c","h","e","m","a","I","d">>),
       Str(<<"c","i","d">>),
       Str(<<"c","l","i","e","n","t","I","d">>) >>

\* r"\b[0-9a-fA-F]{16,64}\b"
KEY_LIKE_RE == << Wb, RepF(<<HexChars>>, 16, 64), Wb >>

\* r"\b[A-Za-z0-9+/]{16,}={0,2}\b"
BASE64_RE ==
    << Wb, RepF(<<Base64Chars>>, 16, Unbounded), RepF(<<{Ord("=")}>>, 0, 2), Wb >>

\* r"(rts3903|rts3906|rts_soc|Realtek|RTL8188|8188fu|rts_)" with re.IGNORECASE
REALTEK_RE ==
    << Grp(1, <<Alt(<<LitI(Str(<<"r","t","s","3","9","0","3">>)),
                        LitI(Str(<<"r","t","s","3","9","0","6">>)),
                        LitI(Str(<<"r","t","s","_","s","o","c">>)),
                        LitI(Str(<<"R","e","a","l","t","e","k">>)),
                        LitI(Str(<<"R","T","L","8","1","8","8">>)),
                        LitI(Str(<<"8","1","8","8","f","u">>)),
                        LitI(Str(<<"r","t","s","_">>))>>)>>) >>

\* r"\bioctl\b" with re.IGNORECASE
IOCTL_RE == <<Wb>> \o LitI(Str(<<"i","o","c","t","l">>)) \o <<Wb>>

\* r"\b(ov[0-9]{3,4}|gc[0-9]{3,4}|ar0[0-9]{3}|imx[0-9]{3,4}|jxf[0-9]{3,4}|
\*    ispfw|isp_firmware|sensor_init|sensor_drv|mipi_rx)\b" with re.IGNORECASE
SENSOR_RE ==
    << Wb,
       Grp(1, <<Alt(<< LitI(Str(<<"o","v">>)) \o << RepF(<<Digits>>, 3, 4) >>,
                       LitI(Str(<<"g","c">>)) \o << RepF(<<Digits>>, 3, 4) >>,
                       LitI(Str(<<"a","r","0">>)) \o << RepF(<<Digits>>, 3, 3) >>,
                       LitI(Str(<<"i","m","x">>)) \o << RepF(<<Digits>>, 3, 4) >>,
                       LitI(Str(<<"j","x","f">>)) \o << RepF(<<Digits>>, 3, 4) >>,
                       LitI(Str(<<"i","s","p","f","w">>)),
                       LitI(Str(<<"i","s","p","_","f","i","r","m","w","a","r","e">>)),
                       LitI(Str(<<"s","e","n","s","o","r","_","i","n","i","t">>)),
                       LitI(Str(<<"s","e","n","s","o","r","_","d","r","v">>)),
                       LitI(Str(<<"m","i","p","i","_","r","x">>)) >>)>>),
       Wb >>

\* r"(pairing|ap_mode|smartconfig|ezconfig|binding|unbind|activation)" with
\* re.IGNORECASE
PAIRING_RE ==
    << Grp(1, <<Alt(<<LitI(Str(<<"p","a","i","r","i","n","g">>)),
                        LitI(Str(<<"a","p","_","m","o","d","e">>)),
                        LitI(Str(<<"s","m","a","r","t","c","o","n","f","i","g">>)),
                        LitI(Str(<<"e","z","c","o","n","f","i","g">>)),
                        LitI(Str(<<"b","i","n","d","i","n","g">>)),
                        LitI(Str(<<"u","n","b","i","n","d">>)),
                        LitI(Str(<<"a","c","t","i","v","a","t","i","o","n">>))>>)>>) >>

\* "if RE.search(s): xs.extend(RE.findall(s))" for one string
Extend(re, s) == IF Search(re, s) THEN FindAll(re, s) ELSE <<>>

\* the matches m of TOPIC_RE.findall(s) with len(m) > 4
TopicHits(s) ==
    IF Search(TOPIC_RE, s)
    THEN SelectSeq(FindAll1(TOPIC_RE, s), LAMBDA m : Len(m) > 4)
    ELSE <<>>

\* "for key in DEVICE_ID_KEYS: if key in s: append; break"
HasDeviceIdKey(s) == \E k \in 1..Len(DEVICE_ID_KEYS) : Contains(s, DEVICE_ID_KEYS[k])

analyze_strings(strings) ==
    LET each(F(_)) == Concat([k \in 1..Len(strings) |-> F(strings[k])])
        those(P(_)) == SelectSeq(strings, P)
    IN  [ urls |-> uniq_preserve(each(LAMBDA s : Extend(URL_RE, s))),
          hosts |-> uniq_preserve(each(LAMBDA s : Extend(HOST_RE, s))),
          mqtt_strings |-> uniq_preserve(those(LAMBDA s : Search(MQTT_RE, s))),
          mqtt_topics |-> uniq_preserve(each(TopicHits)),
          device_id_hits |-> uniq_preserve(those(HasDeviceIdKey)),
          key_like |-> uniq_preserve(each(LAMBDA s : Extend(KEY_LIKE_RE, s))),
          base64_like |-> uniq_preserve(each(LAMBDA s : Extend(BASE64_RE, s))),
          realtek |-> uniq_preserve(those(LAMBDA s : Search(REALTEK_RE, s))),
          ioctls |-> uniq_preserve(those(LAMBDA s : Search(IOCTL_RE, s))),
          sensor |-> uniq_preserve(those(LAMBDA s : Search(SENSOR_RE, s))),
          pairing |-> uniq_preserve(those(LAMBDA s : Search(PAIRING_RE, s))) ]

\* "any(info.values())" written with all()
AnyHits_all(i) == \A c \in DOMAIN i : i[c] # <<>>

\* "if any(info.values())": some category has a hit
AnyHits(i) == \E c \in DOMAIN i : i[c] # <<>>

ElfMagic == <<127, 69, 76, 70>>

(***************************************************************************)
(* NVRAM credential scan: tuya_nvram_credential_scan.py                    *)
(***************************************************************************)

\* \s of a bytes pattern: space, \t, \n, \v, \f, \r
Spaces == {32, 9, 10, 11, 12, 13}

\* rb'nvram\s+get\s+([A-Za-z0-9_]+)'
NV_GET_RE ==
    Lit(Str(<<"n","v","r","a","m">>))
    \o << RepF(<<Spaces>>, 1, Unbounded) >>
    \o Lit(Str(<<"g","e","t">>))
    \o << RepF(<<Spaces>>, 1, Unbounded),
          Grp(1, <<RepF(<<WordChars>>, 1, Unbounded)>>) >>

\* r'nvram' with re.IGNORECASE
NV_FILE_NAME_RE == LitI(Str(<<"n","v","r","a","m">>))

\* "keys_to_files.setdefault(key, []).append(rel)" for the keys ks[j..] in turn
RECURSIVE AppendRel(_, _, _, _)
AppendRel(k2f, ks, j, rel) ==
    IF j > Len(ks) THEN k2f
    ELSE LET key == ks[j]
             old == IF key \in DOMAIN k2f THEN k2f[key] ELSE <<>>
             new == (key :> Append(old, rel)) @@ k2f
         IN  IF Evaluated(new) THEN AppendRel(new, ks, j + 1, rel) ELSE new

\* str.upper() on ASCII text
ToUpper(txt) == Tuple([i \in 1..Len(txt) |->
                          IF txt[i] \in Lower THEN txt[i] - 32 ELSE txt[i]])

StartsWith(txt, pre) == Len(pre) <= Len(txt) /\ Slice(txt, 1, Len(pre)) = pre

interesting_prefixes ==
    { Str(<<"U","U","I","D">>), Str(<<"A","U","T","H","K","E","Y">>),
      Str(<<"P","2","P","I","D">>), Str(<<"P","I","D">>), Str(<<"D","E","V">>),
      Str(<<"M","A","C">>), Str(<<"E","T","H","_">>), Str(<<"W","I","F","I">>),
      Str(<<"T","Z">>) }

\* the keys of keys_to_files that start, in capitals, with such a prefix
InterestingKeys(k2f) ==
    {k \in DOMAIN k2f : \E pre \in interesting_prefixes : StartsWith(ToUpper(k), pre)}

MaxStorageSize == 1048576

(***************************************************************************)
(* NVRAM blob detector: tuya_nvram_blob_detector.py                        *)
(*                                                                         *)
(* A file is [readable, body, pad]: open() succeeds unless readable is     *)
(* "no"; its content is body followed by pad copies of the byte PadByte    *)
(* (a line feed).  A line feed occurs in no keyword and is excluded by     *)
(* every class of the two key=value patterns                               *)
(* ([A-Za-z0-9_], "=", [^\x00\r\n], "." without DOTALL and \x00), so no    *)
(* keyword occurrence and no pattern match contains a pad byte or crosses  *)
(* into the padding: the keyword and pattern scans of the content are      *)
(* those of body.  The padding counts in the size and in the set of        *)
(* distinct byte values.                                                   *)
(***************************************************************************)
PadByte == LF

\* len(data)
Size(f) == Len(f.body) + f.pad

\* set(data)
ByteSet(f) == Range(f.body) \cup (IF f.pad > 0 THEN {PadByte} ELSE {})

KEYWORDS ==
    << Str(<<"U","U","I","D">>), Str(<<"A","U","T","H","K","E","Y">>),
       Str(<<"P","2","P","I","D">>), Str(<<"P","I","D">>),
       Str(<<"M","A","C">>), Str(<<"S","N">>),
       Str(<<"u","u","i","d">>), Str(<<"a","u","t","h","k","e","y">>),
       Str(<<"p","2","p","i","d">>), Str(<<"p","i","d">>),
       Str(<<"m","a","c">>), Str(<<"s","n">>),
       Str(<<"l","o","c","a","l","K","e","y">>), Str(<<"d","e","v","I","d">>),
       Str(<<"p","r","o","d","u","c","t","K","e","y">>) >>

\* rb"([A-Za-z0-9_]{2,32})=([^\x00\r\n]{1,128})"
ASCII_KV_RE ==
    << Grp(1, <<RepF(<<WordChars>>, 2, 32)>>),
       Set({Ord("=")}),
       Grp(2, <<RepF(<<Byte \ {NUL, CR, LF}>>, 1, 128)>>) >>

\* rb"((?:[A-Za-z0-9_]\x00){2,32})=((?:.\x00){2,128})"
UTF16_KV_RE ==
    << Grp(1, <<RepF(<<WordChars, {NUL}>>, 2, 32)>>),
       Set({Ord("=")}),
       Grp(2, <<RepF(<<Byte \ {LF}, {NUL}>>, 2, 128)>>) >>

\* bytes.decode("ascii", "ignore"): bytes above 127 are dropped
DecodeAscii(bs) == SelectSeq(bs, LAMBDA b : b < 128)

\* bytes.decode("utf-16le", "ignore") of an even-length string whose every
\* second byte is \x00 (all that UTF16_KV_RE captures): one character per
\* pair, its code the pair's low byte
DecodeUtf16(bs) == Tuple([i \in 1..(Len(bs) \div 2) |-> bs[2 * i - 1]])

\* the kw of KEYWORDS with "kw in data", in KEYWORDS' order
KeywordHits(body) == SelectSeq(KEYWORDS, LAMBDA kw : Contains(body, kw))

AsciiKvHits(body) ==
    LET ms == FindAll2(ASCII_KV_RE, body)
    IN  Tuple([j \in 1..Len(ms) |-> <<DecodeAscii(ms[j][1]), DecodeAscii(ms[j][2])>>])

Utf16KvHits(body) ==
    LET ms == FindAll2(UTF16_KV_RE, body)
    IN  Tuple([j \in 1..Len(ms) |-> <<DecodeUtf16(ms[j][1]), DecodeUtf16(ms[j][2])>>])

MinBlobSize == 32
MaxBlobSize == 1048576
EntropyLimit == 200

\* "size < 32 or size > 1024 * 1024", with both limits let through wrongly
SizeGateRejects_inclusive(size) == size <= MinBlobSize \/ size >= MaxBlobSize

\* "if size < 32 or size > 1024 * 1024: return None"
SizeGateRejects(size) == size < MinBlobSize \/ size > MaxBlobSize

\* "entropy < 200" with the comparison turned round
LowEntropy_inverted(entropy) == entropy > EntropyLimit

\* "entropy < 200" written as "entropy <= 200"
LowEntropy_inclusive(entropy) == entropy <= EntropyLimit

\* "if entropy < 200"
LowEntropy(entropy) == entropy < EntropyLimit

\* "if val: hits[key] = val" without its test
PutIfAny_always(key, val) == key :> val

\* hits[key] = val when the list val is non-empty ("if val: hits[key] = val")
PutIfAny(key, val) == IF val # <<>> THEN key :> val ELSE EmptyDict

\* scan_blob after the read: the data is there
ScanData(f) ==
    IF SizeGateRejects(Size(f)) THEN None
    ELSE
    LET entropy == Cardinality(ByteSet(f))
        hits == PutIfAny("keyword_hits", KeywordHits(f.body))
                @@ PutIfAny("ascii_kv", AsciiKvHits(f.body))
                @@ PutIfAny("utf16_kv", Utf16KvHits(f.body))
                @@ (IF LowEntropy(entropy)
                    THEN "low_entropy_hint" :> TRUE ELSE EmptyDict)
    IN  IF hits # EmptyDict THEN hits @@ ("size" :> Size(f)) ELSE None

\* what a call stands for when an exception leaves it
Raised == [Raised |-> TRUE]

\* scan_blob without the try/except around the read
scan_blob_no_except(f) == IF f.readable = "no" THEN Raised ELSE ScanData(f)

\* "try: data = open(path, 'rb').read()  except: return None", then the scan
scan_blob(f) == IF f.readable = "no" THEN None ELSE ScanData(f)

(***************************************************************************)
(* Specification of the byte-run scanner: a buffer and a min_len are       *)
(* chosen, then each extractor is applied to them.                         *)
(***************************************************************************)
MaxBufLen == 4
MaxWideLen == 6
MaxMinLen == 3

\* bytes around the printable range's two ends, a letter and NUL
ScanAlphabet == {0, 31, 32, 65, 126, 127}
WideAlphabet == {0, 65, 127}

ScanBuffers ==
    SeqsUpTo(ScanAlphabet, MaxBufLen)
        \cup UNION {[1..k -> WideAlphabet] : k \in (MaxBufLen + 1)..MaxWideLen}

NoFile == [readable |-> "no", body |-> <<>>, pad |-> 0]

ScannerIdle ==
    /\ buf = <<>> /\ min_len = 4
    /\ ascii_strings = <<>> /\ utf16_strings = <<>>

BlobIdle == file = NoFile /\ verdict = NotRun /\ report = NotRun

ClassIdle == in_strings = <<>> /\ deep_hits = NotRun /\ info = NotRun

RunIdle ==
    /\ mode = "none" /\ root_exists = FALSE
    /\ args = [out_json |-> FALSE, qiling_profile |-> FALSE]
    /\ tree = <<>> /\ idx = 0 /\ results = EmptyDict
    /\ tycam_candidate = None /\ pc = "done" /\ stdout = <<>>
    /\ json_out = None /\ exit_msg = None

InitStrings ==
    /\ buf \in ScanBuffers
    /\ min_len \in 1..MaxMinLen
    /\ ascii_strings = <<>>
    /\ utf16_strings = <<>>
    /\ BlobIdle /\ ClassIdle /\ RunIdle

ExtractAscii ==
    /\ ascii_strings' = extract_ascii_strings(buf, min_len)
    /\ UNCHANGED <<buf, min_len, utf16_strings, blobVars, classVars, runVars>>

ExtractUtf16 ==
    /\ utf16_strings' = extract_utf16le_strings(buf, min_len)
    /\ UNCHANGED <<buf, min_len, ascii_strings, blobVars, classVars, runVars>>

NextStrings == ExtractAscii \/ ExtractUtf16

SpecStrings == InitStrings /\ [][NextStrings]_vars

(***************************************************************************)
(* Specification of one file under the blob detector (scan_blob) and the   *)
(* deep scan (analyze_binary).                                             *)
(***************************************************************************)

\* how far around a limit of the code (the two size limits, the entropy
\* limit) the sizes and byte diversities of the files reach
Slack == 1

\* the deep scan is run on files of at most this many bytes
MaxDeepSize == 300

\* the bytes 0, 1, ..., n-1: n distinct byte values
Ramp(n) == Tuple([i \in 1..n |-> i - 1])

AuthKeyWide ==
    <<Ord("A"), 0, Ord("U"), 0, Ord("T"), 0, Ord("H"), 0, Ord("K"), 0,
      Ord("E"), 0, Ord("Y"), 0>>

LocalKeyLine ==
    Str(<<"l","o","c","a","l","K","e","y","=",
          "A","B","C","D","E","F","1","2","3","4","5","6","7","8","9","0",
          "A","B","C","D","E","F","1","2","3","4","5","6","7","8","9","0">>)

HexValue == Slice(LocalKeyLine, 10, Len(LocalKeyLine))

\* contents with and without each signal of the detector
Cores ==
    { <<>>,
      <<200, 201>>,
      Str(<<"A","U","T","H","K","E","Y">>),
      AuthKeyWide,
      Str(<<"s","n">>),
      Str(<<"a","b","=","c">>),
      Str(<<"a","=","b">>),
      <<Ord("k"), 0, Ord("e"), 0, Ord("="), Ord("v"), 0, Ord("w"), 0>>,
      <<Ord("k"), 0, Ord("e"), 0, Ord("="), Ord("v"), 0>>,
      <<Ord("k"), 0, Ord("e"), 0, Ord("="), Ord("v"), 0, 0, 0>>,
      Str(<<"p","i","d","=","1">>) \o <<0>> \o Str(<<"p","i","d","=","1">>),
      LocalKeyLine }

\* what may stand right before and right after LocalKeyLine
Befores == { <<>>, <<0>>, <<LF>>, Str(<<" ">>), Str(<<"x">>), Str(<<"a","a","=","b">>) }
Afters == { <<>>, <<0>>, Str(<<" ">>), Str(<<"Z">>), Str(<<"0">>), Str(<<"_">>) }

Around(n) == {k \in (n - Slack)..(n + Slack) : k >= 0}

\* the pad lengths that bring a body to a size around each size limit, and
\* no padding at all
Pads(body) ==
    {0} \cup {n - Len(body) :
                n \in {k \in Around(MinBlobSize) \cup Around(MaxBlobSize) :
                          k >= Len(body)}}

BlobFiles ==
    \* around the size limits, with and without signals
    { [readable |-> r, body |-> c, pad |-> p] :
          r \in {"yes", "no"}, c \in Cores, p \in {0} }
    \cup UNION { { [readable |-> "yes", body |-> c, pad |-> p] : p \in Pads(c) } :
                   c \in Cores }
    \* around the entropy limit
    \cup UNION { { [readable |-> "yes", body |-> c \o Ramp(n), pad |-> p] :
                     n \in Around(EntropyLimit) \cup {256}, p \in {0, 1} } :
                   c \in { <<>>, <<200, 201>>, Str(<<"A","U","T","H","K","E","Y">>),
                           Str(<<"a","b","=","c">>) } }
    \* LocalKeyLine in context
    \cup { [readable |-> "yes", body |-> b \o LocalKeyLine \o a, pad |-> 0] :
             b \in Befores, a \in Afters }

\* the content of a file, byte for byte
Content(f) == f.body \o [i \in 1..f.pad |-> PadByte]

InitBlob ==
    /\ file \in BlobFiles
    /\ verdict = NotRun
    /\ report = NotRun
    /\ ScannerIdle /\ ClassIdle /\ RunIdle

\* scan_blob(path)
ScanBlob ==
    /\ verdict = NotRun
    /\ verdict' = scan_blob(file)
    /\ UNCHANGED <<file, report, scannerVars, classVars, runVars>>

\* analyze_binary(path) on a file that read_file can read; the two string
\* lists it recovers are kept in ascii_strings and utf16_strings
DeepScan ==
    /\ report = NotRun
    /\ file.readable = "yes"
    /\ Size(file) <= MaxDeepSize
    /\ buf' = Content(file)
    /\ min_len' = 4
    /\ ascii_strings' = extract_ascii_strings(Content(file), 4)
    /\ utf16_strings' = extract_utf16le_strings(Content(file), 4)
    /\ report' = analyze_binary(Content(file))
    /\ UNCHANGED <<file, verdict, classVars, runVars>>

NextBlob == ScanBlob \/ DeepScan

SpecBlob == InitBlob /\ [][NextBlob]_vars

(***************************************************************************)
(* Specification of the classifiers: a sequence of strings is chosen, then *)
(* the find_* functions of the deep scan and analyze_strings of the static *)
(* recon are applied to it.                                                *)
(***************************************************************************)
MaxStrings == 3

\* strings that hit several categories, some of them twice in one string,
\* two of them with the same values in another order
SampleStrings ==
    { Str(<<"/","a","/","b"," ","/","c","/","d"," ","H","M","A","C">>),
      Str(<<"{","\"","u","i","d","\"",":","1","}"," ",
            "a","b","/","d","p"," ","c","d","/","d","p"," ","a","b","/","d","p">>),
      Str(<<"k","=">>) \o HexValue
          \o Str(<<" ","c","d","/","d","p"," ","a","b","/","d","p"," ",
                   "i","o","c","t","l">>) }

InitClassify ==
    /\ in_strings \in SeqsUpTo(SampleStrings, MaxStrings)
    /\ deep_hits = NotRun
    /\ info = NotRun
    /\ ScannerIdle /\ BlobIdle /\ RunIdle

\* find_json_like, find_mqtt_topics, find_tuya_dp, find_keys, find_tuya_sig
ClassifyDeep ==
    /\ deep_hits = NotRun
    /\ deep_hits' = DeepCategories(in_strings)
    /\ UNCHANGED <<in_strings, info, scannerVars, blobVars, runVars>>

\* analyze_strings(strings)
ClassifyRecon ==
    /\ info = NotRun
    /\ info' = analyze_strings(in_strings)
    /\ UNCHANGED <<in_strings, deep_hits, scannerVars, blobVars, runVars>>

NextClassify == ClassifyDeep \/ ClassifyRecon

SpecClassify == InitClassify /\ [][NextClassify]_vars

(***************************************************************************)
(* Specification of a run of one of the four scripts on a path.  Under an  *)
(* existing directory there are up to MaxFiles files, each with its name   *)
(* and with "readable" saying whether open() succeeds on it (a file that   *)
(* cannot be read still has its size: os.path.getsize needs no read        *)
(* permission); the relative path of a file is its name.  A path that does *)
(* not exist has nothing under it: os.walk yields nothing for it.          *)
(***************************************************************************)
MaxFiles == 2

Named(n, body) == [name |-> n, body |-> body, pad |-> 0]

TycamName == Str(<<"t","y","c","a","m">>)
NvramName == Str(<<"n","v","r","a","m">>)

\* an ELF file with hits, an ELF file with none, a text of NVRAM pairs and
\* a script that reads NVRAM keys
SampleFiles ==
    { Named(TycamName,
            ElfMagic \o <<0>>
            \o Str(<<"m","q","t","t"," ","h","t","t","p",":","/","/","a",".","i","o">>)
            \o <<0>>),
      Named(Str(<<"b","u","s","y","b","o","x">>),
            ElfMagic \o <<0>> \o Str(<<"a","b","c","d">>) \o <<0>>),
      Named(NvramName, LocalKeyLine),
      Named(Str(<<"r","c","S">>),
            Str(<<"n","v","r","a","m"," ","g","e","t"," ","U","U","I","D">>) \o <<LF>>
            \o Str(<<"n","v","r","a","m"," "," ","g","e","t"," ","x","1">>) \o <<LF>>
            \o Str(<<"n","v","r","a","m"," ","g","e","t"," ","U","U","I","D">>)) }

Files ==
    { [name |-> f.name, readable |-> r, body |-> f.body, pad |-> f.pad] :
          f \in SampleFiles, r \in {"yes", "no"} }

\* the sequences of up to n files of different names
Trees(n) ==
    {t \in SeqsUpTo(Files, n) :
        \A i, j \in 1..Len(t) : t[i].name = t[j].name => i = j}

Line(what) == [line |-> what]

\* the path is there (TRUE) with something under it, or it is not
InitRun ==
    /\ mode \in {"deep", "blob", "cred", "recon"}
    /\ root_exists \in BOOLEAN
    /\ args \in [out_json : BOOLEAN, qiling_profile : BOOLEAN]
    /\ mode # "recon" => args.qiling_profile = FALSE
    /\ tree \in Trees(MaxFiles)
    /\ ~root_exists => tree = <<>>
    /\ mode = "deep" => (root_exists <=> Len(tree) = 1)
    /\ idx = 0
    /\ results = EmptyDict
    /\ tycam_candidate = None
    /\ pc = IF mode = "recon" THEN "walk" ELSE "start"
    /\ stdout = <<>>
    /\ json_out = None
    /\ exit_msg = None
    /\ ScannerIdle /\ BlobIdle /\ ClassIdle

\* what "if args.out_json" adds
JsonLine == IF args.out_json THEN <<Line("json")>> ELSE <<>>

\* main of tuya_binary_deep_scan.py
DeepMain ==
    /\ mode = "deep" /\ pc = "start"
    /\ IF ~root_exists
       THEN \* "if not os.path.isfile(args.binary): raise SystemExit(...)"
            /\ pc' = "aborted"
            /\ exit_msg' = [message |-> "Binary not found"]
            /\ UNCHANGED <<stdout, json_out, scannerVars, blobVars>>
       ELSE IF tree[1].readable = "no"
       THEN \* read_file raises and nothing catches it
            /\ pc' = "crashed"
            /\ file' = tree[1]
            /\ UNCHANGED <<stdout, json_out, exit_msg, scannerVars, verdict, report>>
       ELSE /\ file' = tree[1]
            /\ buf' = Content(tree[1])
            /\ min_len' = 4
            /\ ascii_strings' = extract_ascii_strings(Content(tree[1]), 4)
            /\ utf16_strings' = extract_utf16le_strings(Content(tree[1]), 4)
            /\ report' = analyze_binary(Content(tree[1]))
            /\ stdout' = <<Line("header"), Line("sections")>> \o JsonLine
            /\ json_out' = IF args.out_json THEN report' ELSE None
            /\ pc' = "done"
            /\ UNCHANGED <<exit_msg, verdict>>
    /\ UNCHANGED <<mode, root_exists, args, tree, idx, results, tycam_candidate,
                   classVars>>

\* main of tuya_nvram_blob_detector.py up to the loop: the two header lines
BlobStart ==
    /\ mode = "blob" /\ pc = "start"
    /\ stdout' = <<Line("header")>>
    /\ pc' = "walk"
    /\ UNCHANGED <<mode, root_exists, args, tree, idx, results, tycam_candidate,
                   json_out, exit_msg, scannerVars, blobVars, classVars>>

\* one turn of its loop: "res = scan_blob(full); if res: results[rel] = res"
BlobVisit ==
    /\ mode = "blob" /\ pc = "walk" /\ idx < Len(tree)
    /\ LET f == tree[idx + 1]
           res == scan_blob(f)
       IN  /\ file' = f
           /\ IF res = Raised
              THEN /\ pc' = "crashed"
                   /\ UNCHANGED <<verdict, results, stdout, idx>>
              ELSE /\ verdict' = res
                   /\ idx' = idx + 1
                   /\ pc' = pc
                   /\ IF res # None /\ res # EmptyDict
                      THEN /\ results' = (f.name :> res) @@ results
                           /\ stdout' = Append(stdout, [line |-> "blob", rel |-> f.name])
                      ELSE UNCHANGED <<results, stdout>>
    /\ UNCHANGED <<mode, root_exists, args, tree, tycam_candidate, json_out,
                   exit_msg, report, scannerVars, classVars>>

\* after the loop: "if not results: print(...)", then the JSON file
BlobFinish ==
    /\ mode = "blob" /\ pc = "walk" /\ idx = Len(tree)
    /\ stdout' = stdout
                 \o (IF DOMAIN results = {} THEN <<Line("none detected")>> ELSE <<>>)
                 \o JsonLine
    /\ json_out' = IF args.out_json THEN [results |-> results] ELSE None
    /\ pc' = "done"
    /\ UNCHANGED <<mode, root_exists, args, tree, idx, results, tycam_candidate,
                   exit_msg, scannerVars, blobVars, classVars>>

\* is_probably_elf(path): the first four bytes, FALSE when the read fails
is_probably_elf(f) ==
    f.readable = "yes" /\ Slice(Content(f), 1, Min({4, Size(f)})) = ElfMagic

\* extract_ascii_strings(path) of the static recon: no string when the
\* read fails, else the single-byte loop with min_len = 4
recon_extract_ascii_strings(f) ==
    IF f.readable = "no" THEN <<>> ELSE extract_ascii_strings(Content(f), 4)

\* one turn of the loop of scan_rootfs
ReconVisit ==
    /\ mode = "recon" /\ pc = "walk" /\ idx < Len(tree)
    /\ LET f == tree[idx + 1]
           strings == recon_extract_ascii_strings(f)
       IN  /\ file' = f
           /\ idx' = idx + 1
           /\ IF ~is_probably_elf(f)
              THEN \* "continue"
                   UNCHANGED <<in_strings, info, results, tycam_candidate>>
              ELSE /\ in_strings' = strings
                   /\ info' = analyze_strings(strings)
                   /\ results' = IF AnyHits(info')
                                 THEN (f.name :> info') @@ results
                                 ELSE results
                   /\ tycam_candidate' = IF f.name = TycamName
                                         THEN [path |-> f.name]
                                         ELSE tycam_candidate
    /\ UNCHANGED <<mode, root_exists, args, tree, pc, stdout, json_out, exit_msg,
                   verdict, report, deep_hits, scannerVars>>

\* scan_rootfs after the loop: the report, the Qiling profile, the JSON file
ReconFinish ==
    /\ mode = "recon" /\ pc = "walk" /\ idx = Len(tree)
    /\ LET profile == args.qiling_profile /\ tycam_candidate # None
       IN  /\ stdout' = <<Line("header"),
                          [line |-> "binaries analyzed",
                           n |-> Cardinality(DOMAIN results)],
                          [line |-> "binaries", rels |-> DOMAIN results]>>
                        \o (IF profile THEN <<Line("qiling profile written")>>
                            ELSE IF args.qiling_profile
                            THEN <<Line("tycam not found")>> ELSE <<>>)
                        \o JsonLine
           /\ json_out' = IF args.out_json
                          THEN [results |-> results, qiling_profile |-> profile]
                          ELSE None
    /\ pc' = "done"
    /\ UNCHANGED <<mode, root_exists, args, tree, idx, results, tycam_candidate,
                   exit_msg, scannerVars, blobVars, classVars>>

\* find_nvram_binary(root): the files whose name is "nvram"
find_nvram_binary(t) == {t[k].name : k \in {j \in 1..Len(t) : t[j].name = NvramName}}

\* guess_nvram_storage_files(root)
guess_nvram_storage_files(t) ==
    {t[k].name : k \in {j \in 1..Len(t) :
                          /\ Search(NV_FILE_NAME_RE, t[j].name)
                          /\ 0 < Size(t[j]) /\ Size(t[j]) <= MaxStorageSize}}

\* main of tuya_nvram_credential_scan.py up to scan_for_nvram_gets
CredStart ==
    /\ mode = "cred" /\ pc = "start"
    /\ IF ~root_exists
       THEN \* "if not os.path.isdir(root): raise SystemExit(...)"
            /\ pc' = "aborted"
            /\ exit_msg' = [message |-> "Rootfs directory not found"]
            /\ UNCHANGED stdout
       ELSE /\ pc' = "walk"
            /\ stdout' = <<Line("header"),
                           [line |-> "nvram binaries", rels |-> find_nvram_binary(tree)]>>
            /\ UNCHANGED exit_msg
    /\ UNCHANGED <<mode, root_exists, args, tree, idx, results, tycam_candidate,
                   json_out, scannerVars, blobVars, classVars>>

\* one turn of the loop of scan_for_nvram_gets
CredScan ==
    /\ mode = "cred" /\ pc = "walk" /\ idx < Len(tree)
    /\ LET f == tree[idx + 1]
           matches == FindAll1(NV_GET_RE, Content(f))
       IN  /\ file' = f
           /\ idx' = idx + 1
           /\ results' = IF f.readable = "no" THEN results
                         ELSE AppendRel(results, matches, 1, f.name)
    /\ UNCHANGED <<mode, root_exists, args, tree, tycam_candidate, pc, stdout,
                   json_out, exit_msg, verdict, report, scannerVars, classVars>>

\* the rest of main: the key lists, the storage candidates, the JSON file
CredFinish ==
    /\ mode = "cred" /\ pc = "walk" /\ idx = Len(tree)
    /\ stdout' = stdout
                 \o <<[line |-> "nvram get usage", keys |-> DOMAIN results],
                      [line |-> "credential keys", keys |-> InterestingKeys(results)],
                      [line |-> "storage files", rels |-> guess_nvram_storage_files(tree)]>>
                 \o JsonLine
    /\ json_out' = IF args.out_json
                   THEN [nvram_binaries |-> find_nvram_binary(tree),
                         nvram_keys |-> results,
                         interesting_keys |-> InterestingKeys(results),
                         nvram_storage_candidates |-> guess_nvram_storage_files(tree)]
                   ELSE None
    /\ pc' = "done"
    /\ UNCHANGED <<mode, root_exists, args, tree, idx, results, tycam_candidate,
                   exit_msg, scannerVars, blobVars, classVars>>

Init == InitRun

Next ==
    \/ DeepMain
    \/ BlobStart \/ BlobVisit \/ BlobFinish
    \/ ReconVisit \/ ReconFinish
    \/ CredStart \/ CredScan \/ CredFinish

Spec == Init /\ [][Next]_vars

(***************************************************************************)
(* Properties                                                              *)
(***************************************************************************)

\* does some keyword of KEYWORDS occur in the content
KeywordPresent(f) == \E k \in 1..Len(KEYWORDS) : Contains(f.body, KEYWORDS[k])

\* the number of distinct byte values of the content
Diversity(f) == Cardinality(ByteSet(f))

\* one of the detector's signals is there: a keyword, a pair, low diversity
SomeSignal(f) ==
    \/ KeywordPresent(f)
    \/ AsciiKvHits(f.body) # <<>>
    \/ Utf16KvHits(f.body) # <<>>
    \/ Diversity(f) < 200

Scanned == verdict # NotRun /\ file.readable = "yes"

\* C1: scan_blob gates on the size before anything else: a file shorter than
\* 32 bytes or longer than 1,048,576 bytes gets no verdict whatever it holds,
\* a file of exactly 32 or exactly 1,048,576 bytes with a signal gets one, and
\* every verdict carries the file's size, which lies in 32..1048576.
C1_SizeGate ==
    Scanned =>
        /\ (Size(file) < 32 \/ Size(file) > 1048576) => verdict = None
        /\ (Size(file) \in {32, 1048576} /\ SomeSignal(file)) => verdict # None
        /\ verdict # None =>
              /\ "size" \in DOMAIN verdict
              /\ verdict.size = Size(file)
              /\ verdict.size >= 32 /\ verdict.size <= 1048576

\* a 31-byte file that holds a keyword has been refused by the size gate
C1_Witness ==
    /\ Scanned /\ Size(file) = 31 /\ KeywordPresent(file) /\ verdict = None

\* the groups of a verdict that the content calls for
FiredGroups(f) ==
    (IF KeywordPresent(f) THEN {"keyword_hits"} ELSE {})
    \cup (IF AsciiKvHits(f.body) # <<>> THEN {"ascii_kv"} ELSE {})
    \cup (IF Utf16KvHits(f.body) # <<>> THEN {"utf16_kv"} ELSE {})
    \cup (IF Diversity(f) < 200 THEN {"low_entropy_hint"} ELSE {})

PassesGate(f) == Size(f) >= 32 /\ Size(f) <= 1048576

\* C3: for a file that passes the size gate, scan_blob returns no verdict
\* exactly when no signal fired; a verdict holds "size" and exactly the
\* groups that fired, each non-empty, and no field for a group that did not.
C3_VerdictGroups ==
    (Scanned /\ PassesGate(file)) =>
        /\ (verdict = None) <=> (FiredGroups(file) = {})
        /\ verdict # None =>
              /\ DOMAIN verdict = FiredGroups(file) \cup {"size"}
              /\ \A k \in DOMAIN verdict \ {"size", "low_entropy_hint"} :
                    verdict[k] # <<>>
              /\ "keyword_hits" \in DOMAIN verdict =>
                    verdict.keyword_hits = KeywordHits(file.body)
              /\ "ascii_kv" \in DOMAIN verdict =>
                    verdict.ascii_kv = AsciiKvHits(file.body)
              /\ "utf16_kv" \in DOMAIN verdict =>
                    verdict.utf16_kv = Utf16KvHits(file.body)

\* a file that passes the gate and fires nothing has got no verdict
C3_Witness ==
    /\ Scanned /\ PassesGate(file) /\ FiredGroups(file) = {} /\ verdict = None

\* C4: for a file that reaches the entropy step, the low-entropy flag is in
\* the verdict exactly when the content has fewer than 200 distinct byte
\* values; with 200 or more there is no flag, keyword or pairs or not.
C4_LowEntropy ==
    (Scanned /\ PassesGate(file)) =>
        /\ Diversity(file) < 200 =>
              /\ verdict # None
              /\ "low_entropy_hint" \in DOMAIN verdict
              /\ verdict.low_entropy_hint = TRUE
        /\ Diversity(file) >= 200 =>
              (verdict = None \/ "low_entropy_hint" \notin DOMAIN verdict)

\* a file of exactly 200 distinct byte values that holds a keyword: a
\* verdict without the flag
C4_Witness ==
    /\ Scanned /\ Diversity(file) = 200 /\ KeywordPresent(file)
    /\ verdict # None /\ "low_entropy_hint" \notin DOMAIN verdict

BothScanned == Scanned /\ report # NotRun

AuthKeyText == Str(<<"A","U","T","H","K","E","Y">>)

\* C9 (as claimed): a buffer holding the wide-encoded "AUTHKEY", big enough
\* to pass the size gate, is recovered as "AUTHKEY" by the wide-string scan
\* and has AUTHKEY in the keyword_hits of its verdict.
C9_WideKeyword ==
    (/\ BothScanned
     /\ file.body = AuthKeyWide /\ PassesGate(file)) =>
        /\ AuthKeyText \in Range(utf16_strings)
        /\ verdict # None
        /\ "keyword_hits" \in DOMAIN verdict
        /\ AuthKeyText \in Range(verdict.keyword_hits)

\* where LocalKeyLine stands in the body, if it does
LocalKeyAt(f) ==
    {p \in 1..(Len(f.body) - Len(LocalKeyLine) + 1) :
        Slice(f.body, p, p + Len(LocalKeyLine) - 1) = LocalKeyLine}

HasLocalKeyPair(v) ==
    /\ v # None
    /\ "ascii_kv" \in DOMAIN v
    /\ \E j \in 1..Len(v.ascii_kv) :
          v.ascii_kv[j][1] = Str(<<"l","o","c","a","l","K","e","y">>)

\* C10 (as claimed): for every buffer that contains the bytes
\* localKey=ABCDEF1234567890ABCDEF1234567890, the ASCII pairs hold a pair of
\* key localKey and the hex-key candidates hold the 32-character value.
C10_AnyContext ==
    (BothScanned /\ LocalKeyAt(file) # {}) =>
        /\ HasLocalKeyPair(verdict)
        /\ HexValue \in Range(report.aes_key_hex_candidates)

\* the bytes of the line that position p is in, up to p (a line starts at the
\* start of the buffer or after a NUL, CR or LF byte)
LineBefore(body, p) ==
    LET cuts == {q \in 1..(p - 1) : body[q] \in {NUL, CR, LF}}
    IN  Slice(body, IF cuts = {} THEN 1 ELSE Max(cuts) + 1, p - 1)

\* no "=" earlier in the line and no word character right before p
FreeStart(body, p) ==
    LET pre == LineBefore(body, p)
    IN  /\ Ord("=") \notin Range(pre)
        /\ pre # <<>> => pre[Len(pre)] \notin WordChars

\* the end of the buffer or a byte that is no word character follows the
\* line that starts at p
FreeEnd(body, p) ==
    LET q == p + Len(LocalKeyLine)
    IN  q > Len(body) \/ body[q] \notin WordChars

\* C10 (amended): in a buffer of at most 1,048,576 bytes, where the bytes
\* localKey=ABCDEF1234567890ABCDEF1234567890 are preceded in their line by
\* no "=" and not directly by a word character, the ASCII pairs hold a pair
\* of key localKey; where they are followed by the end of the buffer or by
\* a byte that is no word character, the hex-key candidates hold the
\* 32-character value.
C10_LocalKeyRoundTrip ==
    BothScanned =>
        \A p \in LocalKeyAt(file) :
            /\ (FreeStart(file.body, p) /\ Size(file) <= 1048576) =>
                  HasLocalKeyPair(verdict)
            /\ FreeEnd(file.body, p) =>
                  HexValue \in Range(report.aes_key_hex_candidates)

\* the line after a space and before a NUL byte: found both ways
C10_Witness ==
    /\ BothScanned
    /\ file.body = Str(<<" ">>) \o LocalKeyLine \o <<0>>
    /\ HasLocalKeyPair(verdict)
    /\ HexValue \in Range(report.aes_key_hex_candidates)

\* the text of the wide string s lies in data at an even offset, every high
\* byte of it zero
FromWidePairs(s, data) ==
    \E k \in 0..((Len(data) \div 2) - Len(s)) :
        \A j \in 1..Len(s) :
            /\ data[2 * (k + j - 1) + 1] = s[j]
            /\ data[2 * (k + j - 1) + 2] = 0

\* C2: every string either extractor returns is at least min_len long and
\* made of characters 32..126 only, and every string of the two-byte mode
\* is the low bytes of consecutive even-offset pairs whose high byte is 0.
C2_RecoveredStrings ==
    /\ \A n \in 1..Len(ascii_strings) :
              /\ Len(ascii_strings[n]) >= min_len
              /\ \A j \in 1..Len(ascii_strings[n]) :
                    ascii_strings[n][j] >= 32 /\ ascii_strings[n][j] <= 126
    /\ \A n \in 1..Len(utf16_strings) :
              /\ Len(utf16_strings[n]) >= min_len
              /\ \A j \in 1..Len(utf16_strings[n]) :
                    utf16_strings[n][j] >= 32 /\ utf16_strings[n][j] <= 126
              /\ FromWidePairs(utf16_strings[n], buf)

\* both extractors have run and each has returned a string, on a buffer
\* that also holds the byte 127
C2_Witness ==
    /\ ascii_strings # <<>>
    /\ utf16_strings # <<>>
    /\ 127 \in Range(buf)

\* no value twice
NoDuplicates(L) == \A i, j \in 1..Len(L) : L[i] = L[j] => i = j

FirstIndex(raw, v) == Min({n \in 1..Len(raw) : raw[n] = v})

\* L holds the values of raw, each once, in the order of their first
\* appearance in raw
FirstSeenOrder(L, raw) ==
    /\ NoDuplicates(L)
    /\ Range(L) = Range(raw)
    /\ \A i, j \in 1..Len(L) :
          i < j => FirstIndex(raw, L[i]) < FirstIndex(raw, L[j])

\* two permutations that generate every permutation of a sequence
SwapFirst(q) ==
    IF Len(q) < 2 THEN q ELSE <<q[2], q[1]>> \o SubSeq(q, 3, Len(q))

Rotate(q) == IF q = <<>> THEN q ELSE Tail(q) \o <<Head(q)>>

\* what Classify makes of each input string on its own (a tuple)
OneByOne(Classify(_), strings) ==
    Tuple([k \in 1..Len(strings) |-> Classify(<<strings[k]>>)])

\* the hits of category c of each string on its own, one string after the other
HitsInTurn(singles, c) == Concat([k \in 1..Len(singles) |-> singles[k][c]])

SameValues(a, b) == \A c \in DOMAIN a : Range(a[c]) = Range(b[c])

\* C5: every hit list of the classifiers holds no value twice and lists the
\* values in the order in which the input strings, taken one by one, first
\* produce them; swapping or rotating the input (and so any permutation of
\* it) leaves the set of values of every hit list as it is.
C5_FirstSeenUnique ==
    /\ deep_hits # NotRun =>
          LET singles == OneByOne(DeepCategories, in_strings)
          IN  /\ \A c \in DOMAIN deep_hits :
                    FirstSeenOrder(deep_hits[c], HitsInTurn(singles, c))
              /\ SameValues(deep_hits, DeepCategories(SwapFirst(in_strings)))
              /\ SameValues(deep_hits, DeepCategories(Rotate(in_strings)))
    /\ info # NotRun =>
          LET singles == OneByOne(analyze_strings, in_strings)
          IN  /\ \A c \in DOMAIN info :
                    FirstSeenOrder(info[c], HitsInTurn(singles, c))
              /\ SameValues(info, analyze_strings(SwapFirst(in_strings)))
              /\ SameValues(info, analyze_strings(Rotate(in_strings)))

\* both classifiers have run on three strings of which the first and the
\* last are the same, and the hex value that two of them hold is listed once
C5_Witness ==
    /\ deep_hits # NotRun /\ info # NotRun
    /\ Len(in_strings) = 3 /\ in_strings[1] = in_strings[3]
    /\ in_strings[1] # in_strings[2]
    /\ deep_hits.aes_key_hex_candidates = <<HexValue>>
    /\ info.key_like = <<HexValue>>
    /\ Len(info.mqtt_topics) = 2

DeepFields ==
    {"stats", "json_like", "mqtt_topics_like", "tuya_dp_fragments",
     "aes_key_hex_candidates", "base64_key_candidates",
     "tuya_signature_related", "rsa_pem_header"}

ReconFields ==
    {"urls", "hosts", "mqtt_strings", "mqtt_topics", "device_id_hits",
     "key_like", "base64_like", "realtek", "ioctls", "sensor", "pairing"}

\* the files the loop has visited
Visited == {tree[k] : k \in 1..idx}

\* C6 (as claimed): the mappings of analyze_binary and analyze_strings and
\* the records stored in the report hold no category with an empty list.
C6_EmptyOmitted ==
    /\ (mode = "deep" /\ report # NotRun) =>
          \A c \in DOMAIN report \ {"stats"} : report[c] # <<>>
    /\ (mode = "recon" /\ info # NotRun) =>
          \A c \in DOMAIN info : info[c] # <<>>
    /\ mode = "recon" =>
          \A rel \in DOMAIN results :
              \A c \in DOMAIN results[rel] : results[rel][c] # <<>>

\* C6 (amended): the mappings of analyze_binary and analyze_strings hold
\* every category field, hits or none; the static recon stores the record
\* of a binary exactly when some category of it has a hit, and the stored
\* record is the whole mapping, every field in it.
C6_AllFieldsKept ==
    /\ (mode = "deep" /\ report # NotRun) => DOMAIN report = DeepFields
    /\ (mode = "recon" /\ info # NotRun) => DOMAIN info = ReconFields
    /\ mode = "recon" =>
          /\ \A rel \in DOMAIN results :
                /\ DOMAIN results[rel] = ReconFields
                /\ \E c \in ReconFields : results[rel][c] # <<>>
          /\ \A f \in Visited :
                (f.readable = "yes" /\ Slice(f.body, 1, 4) = ElfMagic) =>
                   LET i == analyze_strings(extract_ascii_strings(f.body, 4))
                   IN  (f.name \in DOMAIN results)
                          <=> (\E c \in ReconFields : i[c] # <<>>)

\* the record stored for tycam holds a URL and an empty list of hosts, and
\* the ELF file without hits has no record
C6_Witness ==
    /\ mode = "recon" /\ pc = "done" /\ Len(tree) = 2
    /\ \A k \in 1..2 : tree[k].readable = "yes" /\ Slice(tree[k].body, 1, 4) = ElfMagic
    /\ DOMAIN results = {TycamName}
    /\ results[TycamName].urls # <<>>
    /\ results[TycamName].hosts = <<>>

\* C7 (as claimed): when the path does not exist, the run ends with a fatal
\* error: it prints no report line, writes no JSON file, visits no file and
\* does not end as a completed run.
C7_MissingPathFatal ==
    ~root_exists =>
        /\ stdout = <<>>
        /\ json_out = None
        /\ idx = 0
        /\ pc # "done"
        /\ pc = "aborted" => exit_msg # None

\* what a file that can be read gives: a verdict, a record of hits, the
\* keys it reads (None, or empty, when there is nothing in it)
BlobResult(f) == ScanData(f)

ReconResult(f) ==
    IF Slice(f.body, 1, 4) # ElfMagic THEN None
    ELSE LET i == analyze_strings(extract_ascii_strings(f.body, 4))
         IN  IF \E c \in DOMAIN i : i[c] # <<>> THEN i ELSE None

CredKeys(f) == Range(FindAll1(NV_GET_RE, f.body))

\* the files named in keys_to_files
FilesOfKeys == UNION {Range(results[k]) : k \in DOMAIN results}

\* C8: in a directory scan a file that cannot be read ends nothing: the run
\* never breaks off, a completed run has visited every file, and at every
\* point of the loop the report holds exactly the visited files that can be
\* read and whose scan gave something, each with what its scan gave.
C8_ReadFailureSkipped ==
    mode \in {"blob", "recon", "cred"} =>
        /\ pc # "crashed"
        /\ root_exists => pc # "aborted"
        /\ pc = "done" => idx = Len(tree)
        /\ mode = "blob" =>
              /\ DOMAIN results =
                    {f.name : f \in {v \in Visited :
                        v.readable = "yes" /\ BlobResult(v) # None}}
              /\ \A f \in Visited :
                    f.name \in DOMAIN results => results[f.name] = BlobResult(f)
        /\ mode = "recon" =>
              /\ DOMAIN results =
                    {f.name : f \in {v \in Visited :
                        v.readable = "yes" /\ ReconResult(v) # None}}
              /\ \A f \in Visited :
                    f.name \in DOMAIN results => results[f.name] = ReconResult(f)
        /\ mode = "cred" =>
              /\ DOMAIN results =
                    UNION {CredKeys(f) : f \in {v \in Visited : v.readable = "yes"}}
              /\ FilesOfKeys =
                    {f.name : f \in {v \in Visited :
                        v.readable = "yes" /\ CredKeys(v) # {}}}

\* a completed run of the blob detector whose first file, a text of NVRAM
\* pairs, could not be read: the report holds the second file only
C8_Witness ==
    /\ mode = "blob" /\ pc = "done" /\ Len(tree) = 2
    /\ tree[1].name = NvramName /\ tree[1].readable = "no"
    /\ tree[2].readable = "yes"
    /\ DOMAIN results = {tree[2].name}

\* the ASCII pattern transposed to two-byte form, as the claim words it: a
\* key of 2 to 32 word characters, "=", a value of 1 to 128 characters
\* other than NUL, CR and LF, every character followed by a zero byte
WidePatternAsClaimed ==
    << Grp(1, <<RepF(<<WordChars, {0}>>, 2, 32)>>),
       Set({Ord("=")}),
       Grp(2, <<RepF(<<(0..255) \ {0, 13, 10}, {0}>>, 1, 128)>>) >>

\* the pairs that pattern finds in a buffer, one character per byte pair
WidePairsAsClaimed(body) ==
    LET ms == FindAll2(WidePatternAsClaimed, body)
        low(bs) == Tuple([i \in 1..(Len(bs) \div 2) |-> bs[2 * i - 1]])
    IN  Tuple([j \in 1..Len(ms) |-> <<low(ms[j][1]), low(ms[j][2])>>])

\* C11 (as claimed): for a file that passes the size gate, the wide pairs of
\* the verdict are exactly the matches, in buffer order and none dropped, of
\* the ASCII pattern transposed to two-byte form (key of 2 to 32 word
\* characters, one "=" byte, value of 1 to 128 characters other than NUL, CR
\* and LF, each character followed by a zero byte); a wide pair with a value
\* of a single character is among them.
C11_WideTransposed ==
    (Scanned /\ PassesGate(file)) =>
        LET want == WidePairsAsClaimed(file.body)
        IN  IF want = <<>>
            THEN verdict = None \/ "utf16_kv" \notin DOMAIN verdict
            ELSE /\ verdict # None
                 /\ "utf16_kv" \in DOMAIN verdict
                 /\ verdict.utf16_kv = want

\* The units of a buffer, one by one: the character of a printable unit, 0
\* for a unit that is not printable.  A unit of the single-byte mode is a
\* byte; a unit of the two-byte mode is the pair at an even offset (a last
\* byte without a partner is no unit), printable when its high byte is 0.
ByteUnits(data) ==
    Tuple([k \in 1..Len(data) |-> IF data[k] \in 32..126 THEN data[k] ELSE 0])

PairUnits(data) ==
    Tuple([k \in 1..(Len(data) \div 2) |->
              IF data[2 * k] = 0 /\ data[2 * k - 1] \in 32..126
              THEN data[2 * k - 1] ELSE 0])

\* the spans <<a, b>> of the maximal runs of printable units of u
MaximalRuns(u) ==
    {s \in (1..Len(u)) \X (1..Len(u)) :
        /\ s[1] <= s[2]
        /\ \A j \in s[1]..s[2] : u[j] # 0
        /\ s[1] = 1 \/ u[s[1] - 1] = 0
        /\ s[2] = Len(u) \/ u[s[2] + 1] = 0}

\* the texts of the spans of S, from left to right
RECURSIVE TextsInOrder(_, _)
TextsInOrder(S, u) ==
    IF S = {} THEN <<>>
    ELSE LET s == CHOOSE x \in S : \A y \in S : x[1] <= y[1]
         IN  <<SubSeq(u, s[1], s[2])>> \o TextsInOrder(S \ {s}, u)

\* the maximal runs of at least n units, as strings, from left to right
LongRuns(u, n) ==
    TextsInOrder({s \in MaximalRuns(u) : s[2] - s[1] + 1 >= n}, u)

\* C12: for every buffer and min_len, each extractor returns exactly the
\* maximal runs of printable units (bytes; even-offset pairs with a zero
\* high byte, a last unpaired byte ignored) that are at least min_len long,
\* one string per run, from left to right, equal strings kept; what the
\* scanner holds is either nothing yet or that result.
C12_MaximalRuns ==
    LET A == LongRuns(ByteUnits(buf), min_len)
        W == LongRuns(PairUnits(buf), min_len)
    IN  /\ extract_ascii_strings(buf, min_len) = A
        /\ extract_utf16le_strings(buf, min_len) = W
        /\ ascii_strings = <<>> \/ ascii_strings = A
        /\ utf16_strings = <<>> \/ utf16_strings = W

\* both extractors have run with min_len = 2 on the bytes A 00 A 00 A A: the
\* single-byte mode drops the two runs of one letter and keeps the last run,
\* the two-byte mode keeps the run of two pairs that the pair "AA" ends
C12_Witness ==
    /\ min_len = 2
    /\ buf = <<65, 0, 65, 0, 65, 65>>
    /\ ascii_strings = <<<<65, 65>>>>
    /\ utf16_strings = <<<<65, 65>>>>

\* C13: a readable file of 32 to 199 bytes always gets a verdict, with the
\* low-entropy flag set, whatever it holds; a file that passes the size gate
\* and gets no verdict has at least 200 distinct byte values.
C13_SmallFilesFlagged ==
    Scanned =>
        /\ (Size(file) >= 32 /\ Size(file) <= 199) =>
              /\ verdict # None
              /\ "low_entropy_hint" \in DOMAIN verdict
              /\ verdict.low_entropy_hint = TRUE
        /\ (PassesGate(file) /\ verdict = None) => Diversity(file) >= 200

\* a file of 199 bytes, all different, with no keyword and no pair in it:
\* its verdict is the flag and the size, nothing else
C13_Witness ==
    /\ Scanned
    /\ Size(file) = 199 /\ Diversity(file) = 199
    /\ ~KeywordPresent(file)
    /\ verdict # None
    /\ DOMAIN verdict = {"low_entropy_hint", "size"}

=============================================================================
